---- MODULE Spec2Model ----
(***************************************************************************)
(* Model of the performance_management backend: the User / Activity /      *)
(* Track store with its CRUD viewsets, and recap_view, which turns the     *)
(* Tracks of a day, week or month into per-activity totals.                *)
(*                                                                         *)
(* Representation.                                                         *)
(*  - A string that the code inspects (a query parameter, an ISO date, an  *)
(*    error message) is a sequence of one-character strings; fixed message *)
(*    texts are single multi-character fragments inside such a sequence.   *)
(*  - A datetime is a record of its wall-clock fields plus tzinfo, which   *)
(*    is <<>> for a naive value and <<o>> for a fixed offset of o minutes  *)
(*    east of UTC.  Resolution is one second (no microseconds).            *)
(*  - A stored timestamp (Track.start_time, Track.end_time, the clock) is  *)
(*    an instant: seconds since 2024-01-01T00:00:00Z.                      *)
(*  - Floats are exact rationals kept as scaled integers: unrounded        *)
(*    minutes are kept as seconds (60 x minutes), round(x, 2) results as   *)
(*    hundredths (100 x value).                                            *)
(***************************************************************************)
EXTENDS Integers, Sequences, FiniteSets, TLC

VARIABLES
    users,          \* set of User rows [id, name]
    activities,     \* set of Activity rows [id, name]
    tracks,         \* set of Track rows [id, user, activity, start_time, end_time]
    nextId,         \* [user, activity, track] -> next AutoField value
    now,            \* the clock read by timezone.now(): an instant
    default_tz,     \* settings.TIME_ZONE as a fixed offset, minutes east of UTC
    request,        \* the request last handled
    response,       \* its response: [status, body]
    locals,         \* recap_view's local variables when it returned
    calls           \* history: the recap calls a client has made, in order, each
                    \* with the clock it read and the rows it fetched

vars == <<users, activities, tracks, nextId, now, default_tz, request, response, locals,
          calls>>

store == <<users, activities, tracks, nextId>>

(***************************************************************************)
(* Strings                                                                 *)
(***************************************************************************)
None == <<"None">>

DigitChars == <<"0", "1", "2", "3", "4", "5", "6", "7", "8", "9">>

IsDigit(c) == \E i \in 1..10 : DigitChars[i] = c

DigitVal(c) == (CHOOSE i \in 1..10 : DigitChars[i] = c) - 1

IsDigits(s) == Len(s) > 0 /\ \A i \in 1..Len(s) : IsDigit(s[i])

RECURSIVE Num(_)
Num(s) == IF Len(s) = 0 THEN 0
          ELSE 10 * Num(SubSeq(s, 1, Len(s) - 1)) + DigitVal(s[Len(s)])

Pad2(n) == <<DigitChars[((n \div 10) % 10) + 1], DigitChars[(n % 10) + 1]>>

Pad4(n) == Pad2(n \div 100) \o Pad2(n % 100)

\* str.replace("Z", "+00:00")
RECURSIVE ReplaceZ(_)
ReplaceZ(s) ==
    IF Len(s) = 0 THEN <<>>
    ELSE (IF Head(s) = "Z" THEN <<"+", "0", "0", ":", "0", "0">> ELSE <<Head(s)>>)
         \o ReplaceZ(Tail(s))

Ok(v) == [ok |-> TRUE, value |-> v]

\* raise ValueError(msg)
ValueError(msg) == [ok |-> FALSE, error |-> msg]

\* repr() of a str without quotes or escapes in it
Repr(s) == <<"'">> \o s \o <<"'">>

\* int(s): an optional sign and decimal digits
ParseInt(s) ==
    LET signed == Len(s) > 0 /\ s[1] \in {"+", "-"}
        digits == IF signed THEN Tail(s) ELSE s
    IN  IF IsDigits(digits)
        THEN Ok(IF signed /\ s[1] = "-" THEN 0 - Num(digits) ELSE Num(digits))
        ELSE ValueError(<<"invalid literal for int() with base 10: ">> \o Repr(s))

(***************************************************************************)
(* Calendar arithmetic of datetime                                         *)
(***************************************************************************)
IsLeap(y) == (y % 4) = 0 /\ ((y % 100) # 0 \/ (y % 400) = 0)

DaysInMonth(y, m) ==
    IF m = 2 THEN (IF IsLeap(y) THEN 29 ELSE 28)
    ELSE IF m \in {4, 6, 9, 11} THEN 30 ELSE 31

RECURSIVE DaysBeforeMonth(_, _)
DaysBeforeMonth(y, m) ==
    IF m = 1 THEN 0 ELSE DaysBeforeMonth(y, m - 1) + DaysInMonth(y, m - 1)

DaysBeforeYear(y) ==
    (y - 1) * 365 + ((y - 1) \div 4) - ((y - 1) \div 100) + ((y - 1) \div 400)

\* date.toordinal(): 0001-01-01 is day 1
Ymd2Ord(y, m, d) == DaysBeforeYear(y) + DaysBeforeMonth(y, m) + d

\* date.fromordinal()
Ord2Ymd(ord) ==
    LET n0   == ord - 1
        n400 == n0 \div 146097
        r400 == n0 % 146097
        n100 == r400 \div 36524
        r100 == r400 % 36524
        n4   == r100 \div 1461
        r4   == r100 % 1461
        n1   == r4 \div 365
        n    == r4 % 365
        y    == n400 * 400 + n100 * 100 + n4 * 4 + n1 + 1
    IN  IF n1 = 4 \/ n100 = 4
        THEN [year |-> y - 1, month |-> 12, day |-> 31]
        ELSE LET m == CHOOSE k \in 1..12 :
                          /\ DaysBeforeMonth(y, k) <= n
                          /\ n < DaysBeforeMonth(y, k) + DaysInMonth(y, k)
             IN  [year |-> y, month |-> m, day |-> n - DaysBeforeMonth(y, m) + 1]

EpochOrdinal == Ymd2Ord(2024, 1, 1)

\* datetime(...) with tzinfo; field validation as the constructor does it
DateTime(y, m, d, hh, mi, ss, tz) ==
    IF y < 1 \/ y > 9999
    THEN ValueError(<<"year ">> \o <<"is out of range">>)
    ELSE IF m < 1 \/ m > 12 THEN ValueError(<<"month must be in 1..12">>)
    ELSE IF d < 1 \/ d > DaysInMonth(y, m)
    THEN ValueError(<<"day is out of range for month">>)
    ELSE IF hh < 0 \/ hh > 23 THEN ValueError(<<"hour must be in 0..23">>)
    ELSE IF mi < 0 \/ mi > 59 THEN ValueError(<<"minute must be in 0..59">>)
    ELSE IF ss < 0 \/ ss > 59 THEN ValueError(<<"second must be in 0..59">>)
    ELSE Ok([year |-> y, month |-> m, day |-> d,
             hour |-> hh, minute |-> mi, second |-> ss, tzinfo |-> tz])

IsNaive(dt) == dt.tzinfo = <<>>

\* the instant an aware datetime denotes
Instant(dt) ==
    (Ymd2Ord(dt.year, dt.month, dt.day) - EpochOrdinal) * 86400
    + dt.hour * 3600 + dt.minute * 60 + dt.second - dt.tzinfo[1] * 60

\* the aware datetime of a date and a second of that day at a fixed offset
DateTimeAt(ymd, sod, offset) ==
    [year |-> ymd.year, month |-> ymd.month, day |-> ymd.day,
     hour |-> sod \div 3600, minute |-> (sod % 3600) \div 60,
     second |-> sod % 60, tzinfo |-> <<offset>>]

\* the aware datetime of instant t at a fixed offset
FromInstant(t, offset) ==
    DateTimeAt(Ord2Ymd(((t + offset * 60) \div 86400) + EpochOrdinal),
               (t + offset * 60) % 86400, offset)

\* aware.astimezone(tz)
AsTimezone(dt, offset) == FromInstant(Instant(dt), offset)

\* timezone.make_aware(naive, tz)
MakeAware(dt, offset) == [dt EXCEPT !.tzinfo = <<offset>>]

\* dt.replace(hour=0, minute=0, second=0, microsecond=0)
Midnight(dt) == [dt EXCEPT !.hour = 0, !.minute = 0, !.second = 0]

\* dt + timedelta(days=n), n may be negative
AddDays(dt, n) == FromInstant(Instant(dt) + n * 86400, dt.tzinfo[1])

\* dt.weekday(): Monday is 0
Weekday(dt) == (Ymd2Ord(dt.year, dt.month, dt.day) + 6) % 7

(***************************************************************************)
(* ISO 8601 parsing and formatting                                         *)
(***************************************************************************)
\* index of the first "+" or "-" of s, 0 when there is none
SignIndex(s) ==
    IF \E i \in 1..Len(s) : s[i] \in {"+", "-"}
    THEN CHOOSE i \in 1..Len(s) :
             /\ s[i] \in {"+", "-"}
             /\ \A j \in 1..(i - 1) : s[j] \notin {"+", "-"}
    ELSE 0

\* "YYYY-MM-DD"
IsDateText(s) ==
    /\ Len(s) = 10
    /\ s[5] = "-" /\ s[8] = "-"
    /\ IsDigits(SubSeq(s, 1, 4)) /\ IsDigits(SubSeq(s, 6, 7)) /\ IsDigits(SubSeq(s, 9, 10))

\* "HH", "HH:MM" or "HH:MM:SS"
IsTimeText(s) ==
    /\ Len(s) \in {2, 5, 8}
    /\ \A i \in 1..Len(s) : IF i \in {3, 6} THEN s[i] = ":" ELSE IsDigit(s[i])

\* "HH:MM" after the sign of a UTC offset
IsOffsetText(s) == Len(s) = 5 /\ IsTimeText(s)

TimeField(s, k) == IF Len(s) >= 3 * k + 2 THEN Num(SubSeq(s, 3 * k + 1, 3 * k + 2)) ELSE 0

\* datetime.timezone(timedelta(minutes=offset))
FixedOffset(offset) ==
    IF offset <= -1440 \/ offset >= 1440
    THEN ValueError(<<"offset must be a timedelta strictly between -timedelta(hours=24) and timedelta(hours=24)">>)
    ELSE Ok(offset)

InvalidIsoformat(s) == ValueError(<<"Invalid isoformat string: ">> \o Repr(s))

\* the tzinfo of a parsed UTC offset: Ok(<<minutes>>), or the ValueError of timezone()
Aware(tz) == IF tz.ok THEN Ok(<<tz.value>>) ELSE tz

\* the minutes east of UTC "+HH:MM" or "-HH:MM" names
OffsetMinutes(sign, tzstr) ==
    IF sign = "-" THEN 0 - (TimeField(tzstr, 0) * 60 + TimeField(tzstr, 1))
    ELSE TimeField(tzstr, 0) * 60 + TimeField(tzstr, 1)

\* the datetime of a well-formed string: its date text, its time text and its tzinfo
IsoDateTime(s, timestr, tz) ==
    IF ~tz.ok THEN tz
    ELSE DateTime(Num(SubSeq(s, 1, 4)), Num(SubSeq(s, 6, 7)), Num(SubSeq(s, 9, 10)),
                  TimeField(timestr, 0), TimeField(timestr, 1), TimeField(timestr, 2),
                  tz.value)

\* the time part: rest is s[11:], sg the index of the sign of its UTC offset, 0
\* when it has none
IsoTime(s, rest, sg) ==
    IF sg = 0
    THEN IF IsTimeText(rest) THEN IsoDateTime(s, rest, Ok(<<>>)) ELSE InvalidIsoformat(s)
    ELSE IF /\ IsTimeText(SubSeq(rest, 1, sg - 1))
            /\ IsOffsetText(SubSeq(rest, sg + 1, Len(rest)))
         THEN IsoDateTime(s, SubSeq(rest, 1, sg - 1),
                          Aware(FixedOffset(OffsetMinutes(rest[sg],
                                                          SubSeq(rest, sg + 1, Len(rest))))))
         ELSE InvalidIsoformat(s)

\* datetime.fromisoformat(s), for the forms isoformat() itself produces
FromIsoformat(s) ==
    IF Len(s) < 10 \/ ~IsDateText(SubSeq(s, 1, 10)) THEN InvalidIsoformat(s)
    ELSE IF Len(s) = 10 THEN IsoDateTime(s, <<>>, Ok(<<>>))
    ELSE IsoTime(s, SubSeq(s, 12, Len(s)), SignIndex(SubSeq(s, 12, Len(s))))

\* strftime("%Y-%m-%d")
DateText(dt) == Pad4(dt.year) \o <<"-">> \o Pad2(dt.month) \o <<"-">> \o Pad2(dt.day)

AbsVal(n) == IF n < 0 THEN 0 - n ELSE n

\* aware.isoformat() of a value without microseconds
IsoFormat(dt) ==
    LET off == dt.tzinfo[1]
    IN  DateText(dt) \o <<"T">> \o Pad2(dt.hour) \o <<":">> \o Pad2(dt.minute)
        \o <<":">> \o Pad2(dt.second)
        \o <<(IF off < 0 THEN "-" ELSE "+")>>
        \o Pad2(AbsVal(off) \div 60) \o <<":">> \o Pad2(AbsVal(off) % 60)

MonthNames == <<"January", "February", "March", "April", "May", "June", "July",
                "August", "September", "October", "November", "December">>

\* strftime("%B %Y")
MonthText(dt) == <<MonthNames[dt.month], " ">> \o Pad4(dt.year)

(***************************************************************************)
(* recap_view: client timezone and period                                  *)
(***************************************************************************)
\* `if param:` on request.GET.get(...)
Truthy(param) == param # None /\ Len(param) > 0

\* the client timezone falling back to the default on a tz_offset that is no integer
ClientTimezoneLenient(GET, dflt) ==
    IF GET.tz_offset # None
    THEN LET parsed == ParseInt(GET.tz_offset)
         IN  IF ~parsed.ok THEN Ok(dflt)
             ELSE FixedOffset(0 - parsed.value)
    ELSE Ok(dflt)

\* the client timezone letting the ValueError of int() through
ClientTimezoneRaw(GET, dflt) ==
    IF GET.tz_offset # None
    THEN LET parsed == ParseInt(GET.tz_offset)
         IN  IF ~parsed.ok THEN parsed
             ELSE FixedOffset(0 - parsed.value)
    ELSE Ok(dflt)

\* the client timezone with tz_offset taken as minutes east of UTC
ClientTimezoneEast(GET, dflt) ==
    IF GET.tz_offset # None
    THEN LET parsed == ParseInt(GET.tz_offset)
         IN  IF ~parsed.ok THEN ValueError(<<"Invalid tz_offset parameter">>)
             ELSE FixedOffset(parsed.value)
    ELSE Ok(dflt)

\* django.utils.timezone.get_fixed_timezone(-tz_offset_minutes)
ClientTimezone(GET, dflt) ==
    IF GET.tz_offset # None
    THEN LET parsed == ParseInt(GET.tz_offset)
         IN  IF ~parsed.ok THEN ValueError(<<"Invalid tz_offset parameter">>)
             ELSE FixedOffset(0 - parsed.value)
    ELSE Ok(dflt)

\* the midnight in the client timezone of the day a parsed datetime is in
ClientMidnight(parsed, tz) ==
    IF ~parsed.ok THEN parsed
    ELSE Ok(Midnight(IF IsNaive(parsed.value) THEN MakeAware(parsed.value, tz)
                     ELSE AsTimezone(parsed.value, tz)))

ParseClientMidnight(value, tz) == ClientMidnight(FromIsoformat(ReplaceZ(value)), tz)

\* the day's start taken from the clock also when date is supplied
DailyStartFromNow(GET, now_client, tz) ==
    Ok(Midnight(now_client))

DailyStart(GET, now_client, tz) ==
    IF Truthy(GET.date) THEN ParseClientMidnight(GET.date, tz)
    ELSE Ok(Midnight(now_client))

\* the week start with a supplied week_start moved back to its Monday
WeeklyStartMonday(GET, now_client, tz) ==
    IF Truthy(GET.week_start)
    THEN LET anchor == ParseClientMidnight(GET.week_start, tz)
         IN  IF ~anchor.ok THEN anchor
             ELSE Ok(AddDays(anchor.value, 0 - Weekday(anchor.value)))
    ELSE Ok(Midnight(AddDays(now_client, 0 - Weekday(now_client))))

WeeklyStart(GET, now_client, tz) ==
    IF Truthy(GET.week_start) THEN ParseClientMidnight(GET.week_start, tz)
    ELSE Ok(Midnight(AddDays(now_client, 0 - Weekday(now_client))))

MonthlyStart(GET, now_client, tz) ==
    IF Truthy(GET.year) /\ Truthy(GET.month)
    THEN LET year  == ParseInt(GET.year)
             month == ParseInt(GET.month)
         IN  IF ~year.ok THEN year
             ELSE IF ~month.ok THEN month
             ELSE DateTime(year.value, month.value, 1, 0, 0, 0, <<tz>>)
    ELSE Ok([Midnight(now_client) EXCEPT !.day = 1])

\* the month end without the December case
MonthlyEndSameYear(start_local) ==
    DateTime(start_local.year, start_local.month + 1, start_local.day, 0, 0, 0,
             start_local.tzinfo)

\* start_local.replace(year=..., month=...) on the first of a month
MonthlyEnd(start_local) ==
    IF start_local.month = 12
    THEN DateTime(start_local.year + 1, 1, start_local.day, 0, 0, 0, start_local.tzinfo)
    ELSE DateTime(start_local.year, start_local.month + 1, start_local.day, 0, 0, 0,
                  start_local.tzinfo)

ValidModes == {"daily", "weekly", "monthly"}

\* start_local of the mode's branch, or the ValueError raised
PeriodStart(mode, GET, now_client, tz) ==
    CASE mode = "daily"   -> DailyStart(GET, now_client, tz)
      [] mode = "weekly"  -> WeeklyStart(GET, now_client, tz)
      [] mode = "monthly" -> MonthlyStart(GET, now_client, tz)

\* end_local of the mode's branch, or the ValueError raised
PeriodEnd(mode, start_local) ==
    CASE mode = "daily"   -> Ok(AddDays(start_local, 1))
      [] mode = "weekly"  -> Ok(AddDays(start_local, 7))
      [] mode = "monthly" -> MonthlyEnd(start_local)

PeriodBetween(start_local, end) ==
    IF ~end.ok THEN end
    ELSE Ok([start_local |-> start_local, end_local |-> end.value])

PeriodFrom(mode, start) ==
    IF ~start.ok THEN start
    ELSE PeriodBetween(start.value, PeriodEnd(mode, start.value))

\* the if / elif chain on mode: Ok([start_local, end_local]) or the ValueError raised
Period(mode, GET, now_client, tz) ==
    PeriodFrom(mode, PeriodStart(mode, GET, now_client, tz))

(***************************************************************************)
(* recap_view: query and aggregation                                       *)
(***************************************************************************)
\* the filter with start_time__lte in place of start_time__lt
FilterTracksClosed(rows, start_range, end_range) ==
    LET gte == Instant(start_range)
        lte == Instant(end_range)
    IN  {t \in rows : t.start_time >= gte /\ t.start_time <= lte}

\* Track.objects.filter(start_time__gte=start_range, start_time__lt=end_range)
FilterTracks(rows, start_range, end_range) ==
    LET gte == Instant(start_range)
        lt  == Instant(end_range)
    IN  {t \in rows : t.start_time >= gte /\ t.start_time < lt}

\* the orders in which a queryset may yield rows: Track.Meta.ordering is
\* -start_time, and rows with equal start_time come in any order
RECURSIVE QuerySetOrders(_)
QuerySetOrders(rows) ==
    IF rows = {} THEN {<<>>}
    ELSE UNION {{<<t>> \o r : r \in QuerySetOrders(rows \ {t})} :
                t \in {x \in rows : \A y \in rows : x.start_time >= y.start_time}}

\* track.activity
ActivityOf(track) == CHOOSE a \in activities : a.id = track.activity

\* (track.end_time - track.start_time).total_seconds(), i.e. 60 x duration_minutes
DurationSeconds(track) == track.end_time - track.start_time

StatIndex(stats, activity_id) ==
    IF \E i \in 1..Len(stats) : stats[i].activity_id = activity_id
    THEN CHOOSE i \in 1..Len(stats) : stats[i].activity_id = activity_id
    ELSE 0

NameIndex(stats, activity_name) ==
    IF \E i \in 1..Len(stats) : stats[i].activity_name = activity_name
    THEN CHOOSE i \in 1..Len(stats) : stats[i].activity_name = activity_name
    ELSE 0

\* the loop with activity_stats keyed by the activity's name
RECURSIVE AccumulateByName(_, _, _)
AccumulateByName(fetched, stats, total) ==
    IF Len(fetched) = 0 THEN [activity_stats |-> stats, total_minutes |-> total]
    ELSE LET track == Head(fetched)
             name  == ActivityOf(track).name
             known == IF NameIndex(stats, name) = 0
                      THEN Append(stats, [activity_id |-> ActivityOf(track).id,
                                          activity_name |-> name,
                                          minutes |-> 0])
                      ELSE stats
             i     == NameIndex(known, name)
         IN  AccumulateByName(Tail(fetched),
                              [known EXCEPT ![i].minutes = @ + DurationSeconds(track)],
                              total + DurationSeconds(track))

\* the loop over tracks: activity_stats in insertion order, and total_minutes
RECURSIVE Accumulate(_, _, _)
Accumulate(fetched, stats, total) ==
    IF Len(fetched) = 0 THEN [activity_stats |-> stats, total_minutes |-> total]
    ELSE LET track == Head(fetched)
             aid   == ActivityOf(track).id
             known == IF StatIndex(stats, aid) = 0
                      THEN Append(stats, [activity_id |-> aid,
                                          activity_name |-> ActivityOf(track).name,
                                          minutes |-> 0])
                      ELSE stats
             i     == StatIndex(known, aid)
         IN  Accumulate(Tail(fetched),
                        [known EXCEPT ![i].minutes = @ + DurationSeconds(track)],
                        total + DurationSeconds(track))

\* n / d rounded to the nearest integer, ties to even (d > 0)
RoundDiv(n, d) ==
    LET q == n \div d
        r == n % d
    IN  IF 2 * r < d THEN q
        ELSE IF 2 * r > d THEN q + 1
        ELSE IF (q % 2) = 0 THEN q ELSE q + 1

\* round(minutes, 2), in hundredths, of minutes kept as seconds
RoundMinutes(seconds) == RoundDiv(seconds * 100, 60)

\* the share as a fraction of 1, not of 100
PercentageFraction(minutes, total_minutes) ==
    IF total_minutes > 0 THEN RoundDiv(minutes * 100, total_minutes) ELSE 0

\* round(percentage, 2), in hundredths
Percentage(minutes, total_minutes) ==
    IF total_minutes > 0 THEN RoundDiv(minutes * 10000, total_minutes) ELSE 0

Entry(data, total_minutes) ==
    [activity_id   |-> data.activity_id,
     activity_name |-> data.activity_name,
     minutes       |-> RoundMinutes(data.minutes),
     percentage    |-> Percentage(data.minutes, total_minutes)]

\* an ascending sort read backwards: equal keys come out in reverse order
RECURSIVE SortEntriesBackwards(_)
SortEntriesBackwards(entries) ==
    IF Len(entries) = 0 THEN <<>>
    ELSE LET sorted == SortEntriesBackwards(SubSeq(entries, 1, Len(entries) - 1))
             last   == entries[Len(entries)]
             before == Cardinality({i \in 1..Len(sorted) : sorted[i].minutes > last.minutes})
         IN  SubSeq(sorted, 1, before) \o <<last>> \o SubSeq(sorted, before + 1, Len(sorted))

\* list.sort(key=minutes, reverse=True) is stable: equal keys keep their order
RECURSIVE SortEntries(_)
SortEntries(entries) ==
    IF Len(entries) = 0 THEN <<>>
    ELSE LET sorted == SortEntries(SubSeq(entries, 1, Len(entries) - 1))
             last   == entries[Len(entries)]
             before == Cardinality({i \in 1..Len(sorted) : sorted[i].minutes >= last.minutes})
         IN  SubSeq(sorted, 1, before) \o <<last>> \o SubSeq(sorted, before + 1, Len(sorted))

Label(mode, start_local, end_local) ==
    CASE mode = "daily"  -> DateText(start_local)
      [] mode = "weekly" -> DateText(start_local) \o <<" ", "->", " ">>  \* the arrow U+2192
                            \o DateText(AddDays(end_local, -1))
      [] OTHER           -> MonthText(start_local)

Response(status, body) == [status |-> status, body |-> body]

NoLocals == [returned |-> "error"]

\* the summary built from the fetched rows
Summary(mode, period, fetched) ==
    LET acc     == Accumulate(fetched, <<>>, 0)
        entries == [i \in 1..Len(acc.activity_stats) |->
                        Entry(acc.activity_stats[i], acc.total_minutes)]
    IN  [response |->
             Response(200, [mode          |-> mode,
                            label         |-> Label(mode, period.start_local, period.end_local),
                            start         |-> IsoFormat(period.start_local),
                            end           |-> IsoFormat(period.end_local),
                            total_minutes |-> RoundMinutes(acc.total_minutes),
                            entries       |-> SortEntries(entries)]),
         locals |->
             [returned       |-> "summary",
              start_local    |-> period.start_local,
              end_local      |-> period.end_local,
              start_range    |-> AsTimezone(period.start_local, 0),
              end_range      |-> AsTimezone(period.end_local, 0),
              tracks         |-> fetched,
              activity_stats |-> acc.activity_stats,
              total_minutes  |-> acc.total_minutes]]

InvalidModeMessage == <<"Invalid mode", ". Use daily, weekly, or monthly">>

\* the except ValueError clause
InvalidDateParameter(message) ==
    /\ response' = Response(400, [error |-> <<"Invalid date parameter: ">> \o message])
    /\ locals' = NoLocals

Return(out) ==
    /\ response' = out.response
    /\ locals' = out.locals

\* from the conversion of the period to UTC on
RecapPeriod(mode, period) ==
    IF ~period.ok THEN InvalidDateParameter(period.error)
    ELSE \E fetched \in QuerySetOrders(
                 FilterTracks(tracks,
                              AsTimezone(period.value.start_local, 0),
                              AsTimezone(period.value.end_local, 0))) :
             Return(Summary(mode, period.value, fetched))

\* from now_client on, tz being the client timezone or the ValueError raised for it
RecapIn(mode, GET, tz) ==
    IF ~tz.ok THEN InvalidDateParameter(tz.error)
    ELSE IF mode \notin ValidModes
    THEN /\ response' = Response(400, [error |-> InvalidModeMessage])
         /\ locals' = NoLocals
    ELSE RecapPeriod(mode, Period(mode, GET, FromInstant(now, tz.value), tz.value))

\* GET /recap/<mode>/
Recap(mode, GET) ==
    /\ request' = [op |-> "recap", mode |-> mode, GET |-> GET]
    /\ UNCHANGED <<store, now, default_tz>>
    /\ RecapIn(mode, GET, ClientTimezone(GET, default_tz))

(***************************************************************************)
(* The store and its viewsets                                              *)
(***************************************************************************)
\* rows ever created, over the three tables, in the store specification
MaxCreates == 6

Created == (nextId.user - 1) + (nextId.activity - 1) + (nextId.track - 1)

\* primary keys named by requests
KeyRange == 1..2

Ids(rows) == {r.id : r \in rows}

\* CharField(max_length=255) of a required field: blank is rejected
ValidName(name) == name # ""

\* POST /users/
CreateUser(name) ==
    /\ Created < MaxCreates
    /\ request' = [op |-> "create_user", name |-> name]
    /\ IF ValidName(name)
       THEN /\ users' = users \cup {[id |-> nextId.user, name |-> name]}
            /\ nextId' = [nextId EXCEPT !.user = @ + 1]
            /\ response' = Response(201, [id |-> nextId.user, name |-> name])
       ELSE /\ UNCHANGED <<users, nextId>>
            /\ response' = Response(400, [name |-> <<"This field may not be blank.">>])
    /\ locals' = NoLocals
    /\ UNCHANGED <<activities, tracks, now, default_tz>>

\* POST /activities/
CreateActivity(name) ==
    /\ Created < MaxCreates
    /\ request' = [op |-> "create_activity", name |-> name]
    /\ IF ValidName(name)
       THEN /\ activities' = activities \cup {[id |-> nextId.activity, name |-> name]}
            /\ nextId' = [nextId EXCEPT !.activity = @ + 1]
            /\ response' = Response(201, [id |-> nextId.activity, name |-> name])
       ELSE /\ UNCHANGED <<activities, nextId>>
            /\ response' = Response(400, [name |-> <<"This field may not be blank.">>])
    /\ locals' = NoLocals
    /\ UNCHANGED <<users, tracks, now, default_tz>>

\* PrimaryKeyRelatedField(queryset=User.objects.all()) and
\* PrimaryKeyRelatedField(queryset=Activity.objects.all())
ValidTrackData(data) == data.user \in Ids(users) /\ data.activity \in Ids(activities)

TrackRow(id, data) ==
    [id |-> id, user |-> data.user, activity |-> data.activity,
     start_time |-> data.start_time, end_time |-> data.end_time]

\* POST /tracks/
CreateTrack(data) ==
    /\ Created < MaxCreates
    /\ request' = [op |-> "create_track", data |-> data]
    /\ IF ValidTrackData(data)
       THEN /\ tracks' = tracks \cup {TrackRow(nextId.track, data)}
            /\ nextId' = [nextId EXCEPT !.track = @ + 1]
            /\ response' = Response(201, TrackRow(nextId.track, data))
       ELSE /\ UNCHANGED <<tracks, nextId>>
            /\ response' = Response(400, [error |-> <<"Invalid pk - object does not exist.">>])
    /\ locals' = NoLocals
    /\ UNCHANGED <<users, activities, now, default_tz>>

\* PUT /tracks/<pk>/
UpdateTrack(pk, data) ==
    /\ request' = [op |-> "update_track", pk |-> pk, data |-> data]
    /\ IF pk \notin Ids(tracks)
       THEN /\ UNCHANGED tracks
            /\ response' = Response(404, None)
       ELSE IF ValidTrackData(data)
       THEN /\ tracks' = {t \in tracks : t.id # pk} \cup {TrackRow(pk, data)}
            /\ response' = Response(200, TrackRow(pk, data))
       ELSE /\ UNCHANGED tracks
            /\ response' = Response(400, [error |-> <<"Invalid pk - object does not exist.">>])
    /\ locals' = NoLocals
    /\ UNCHANGED <<users, activities, nextId, now, default_tz>>

\* the delete with Track.user on_delete=DO_NOTHING
DeleteUserKeepTracks(pk) ==
    /\ request' = [op |-> "destroy_user", pk |-> pk]
    /\ IF pk \in Ids(users)
       THEN /\ users' = {u \in users : u.id # pk}
            /\ response' = Response(204, None)
       ELSE /\ UNCHANGED users
            /\ response' = Response(404, None)
    /\ locals' = NoLocals
    /\ UNCHANGED <<activities, tracks, nextId, now, default_tz>>

\* DELETE /users/<pk>/ ; Track.user is on_delete=CASCADE
DeleteUser(pk) ==
    /\ request' = [op |-> "destroy_user", pk |-> pk]
    /\ IF pk \in Ids(users)
       THEN /\ users' = {u \in users : u.id # pk}
            /\ tracks' = {t \in tracks : t.user # pk}
            /\ response' = Response(204, None)
       ELSE /\ UNCHANGED <<users, tracks>>
            /\ response' = Response(404, None)
    /\ locals' = NoLocals
    /\ UNCHANGED <<activities, nextId, now, default_tz>>

\* DELETE /activities/<pk>/ ; Track.activity is on_delete=CASCADE
DeleteActivity(pk) ==
    /\ request' = [op |-> "destroy_activity", pk |-> pk]
    /\ IF pk \in Ids(activities)
       THEN /\ activities' = {a \in activities : a.id # pk}
            /\ tracks' = {t \in tracks : t.activity # pk}
            /\ response' = Response(204, None)
       ELSE /\ UNCHANGED <<activities, tracks>>
            /\ response' = Response(404, None)
    /\ locals' = NoLocals
    /\ UNCHANGED <<users, nextId, now, default_tz>>

\* DELETE /tracks/<pk>/
DeleteTrack(pk) ==
    /\ request' = [op |-> "destroy_track", pk |-> pk]
    /\ IF pk \in Ids(tracks)
       THEN /\ tracks' = {t \in tracks : t.id # pk}
            /\ response' = Response(204, None)
       ELSE /\ UNCHANGED tracks
            /\ response' = Response(404, None)
    /\ locals' = NoLocals
    /\ UNCHANGED <<users, activities, nextId, now, default_tz>>

(***************************************************************************)
(* Inputs                                                                  *)
(***************************************************************************)
\* the instant of a UTC wall-clock time
At(y, m, d, hh, mi, ss) ==
    Instant([year |-> y, month |-> m, day |-> d,
             hour |-> hh, minute |-> mi, second |-> ss, tzinfo |-> <<0>>])

\* the text "YYYY-MM-DD"
DateStr(y, m, d) == DateText([year |-> y, month |-> m, day |-> d])

\* request.GET of a recap request
Query(date, week_start, year, month, tz_offset) ==
    [date |-> date, week_start |-> week_start, year |-> year, month |-> month,
     tz_offset |-> tz_offset]

NoRequest == [op |-> "none"]

NoResponse == Response(0, None)

UserNames == {"Ann", ""}

ActivityNames == {"Run", ""}

\* bodies of POST and PUT /tracks/ in the store specification
StoreTrackData ==
    {[user |-> u, activity |-> a,
      start_time |-> At(2024, 3, 10, 6, 0, 0), end_time |-> At(2024, 3, 10, 6, 30, 0)] :
        u \in KeyRange, a \in KeyRange}

StoreQuery == Query(DateStr(2024, 3, 10), None, None, None, <<"0">>)

\* the day, the week and the month the Tracks of the aggregation stores lie in
AggregateQuery ==
    Query(DateStr(2024, 3, 10), DateStr(2024, 3, 4), <<"2", "0", "2", "4">>, <<"3">>, <<"0">>)

\* durations in seconds: negative, zero, and two that are no whole number of minutes
Durations == {-100, 0, 100, 400}

\* Tracks of one store of the aggregation specification
MaxTracks == 3

AggregateActivities == {[id |-> 1, name |-> "Run"], [id |-> 2, name |-> "Swim"],
                        [id |-> 3, name |-> "Run"]}

AggregateTrackData == {[activity |-> a.id, duration |-> d] : a \in AggregateActivities, d \in Durations}

\* the store after POSTing the Tracks of `posted` in order, one starting each minute
AggregateStore(posted) ==
    {[id |-> i, user |-> 1, activity |-> posted[i].activity,
      start_time |-> At(2024, 3, 10, 6, i, 0),
      end_time |-> At(2024, 3, 10, 6, i, 0) + posted[i].duration] : i \in 1..Len(posted)}

AggregateStores ==
    {AggregateStore(posted) : posted \in UNION {[1..n -> AggregateTrackData] : n \in 0..MaxTracks}}

Modes == ValidModes \cup {"yearly"}

DateParams ==
    {None, <<>>,
     DateStr(2024, 3, 10),
     DateStr(2024, 3, 10) \o <<"T", "0", "2", ":", "0", "0", ":", "0", "0", "Z">>,
     DateStr(2024, 13, 1),
     <<"n", "o", "t", "-", "a", "-", "d", "a", "t", "e">>,
     <<"b", "a", "d", "Z">>}

\* a Wednesday, a Monday, a Sunday evening west of UTC, and no date at all
WeekStartParams ==
    {None,
     DateStr(2024, 3, 13),
     DateStr(2024, 3, 11),
     DateStr(2024, 3, 17) \o <<"T", "2", "3", ":", "3", "0", "-", "0", "5", ":", "0", "0">>,
     <<"x", "x">>}

YearParams == {None, <<"2", "0", "2", "4">>, <<"x">>}

MonthParams == {None, <<"1", "2">>, <<"2">>, <<"1", "3">>}

TzOffsetParams ==
    {None, <<"0">>, <<"3", "0", "0">>, <<"-", "5", "4", "0">>, <<"a", "b", "c">>,
     <<"1", "4", "4", "0">>}

PeriodQueries ==
    {Query(d, w, y, m, z) : d \in DateParams, w \in WeekStartParams, y \in YearParams,
                            m \in MonthParams, z \in TzOffsetParams}

\* Sunday 2024-03-10 03:00Z, Wednesday 2024-03-13 12:00Z, Tuesday 2024-12-31 23:30Z
NowValues == {At(2024, 3, 10, 3, 0, 0), At(2024, 3, 13, 12, 0, 0), At(2024, 12, 31, 23, 30, 0)}

DefaultTimezones == {0, 330}

\* start times on and around the boundaries of the periods asked for
SeedStartsA ==
    {At(2024, 3, 9, 5, 0, 0), At(2024, 3, 9, 15, 0, 0), At(2024, 3, 10, 0, 0, 0),
     At(2024, 3, 10, 3, 0, 0), At(2024, 3, 10, 4, 30, 0), At(2024, 3, 10, 5, 0, 0),
     At(2024, 3, 10, 15, 0, 0), At(2024, 3, 10, 23, 59, 59), At(2024, 3, 11, 0, 0, 0),
     At(2024, 3, 11, 4, 59, 59), At(2024, 3, 11, 5, 0, 0)}

SeedStartsB ==
    {At(2024, 1, 31, 23, 59, 59), At(2024, 2, 1, 0, 0, 0), At(2024, 2, 29, 23, 59, 59),
     At(2024, 3, 1, 0, 0, 0), At(2024, 3, 11, 0, 0, 0), At(2024, 3, 13, 0, 0, 0),
     At(2024, 3, 17, 5, 0, 0), At(2024, 3, 18, 0, 0, 0), At(2024, 3, 20, 0, 0, 0),
     At(2024, 3, 24, 5, 0, 0), At(2024, 4, 1, 0, 0, 0), At(2024, 11, 30, 15, 0, 0),
     At(2024, 12, 1, 0, 0, 0), At(2024, 12, 31, 15, 0, 0), At(2025, 1, 1, 0, 0, 0),
     At(2025, 1, 31, 15, 0, 0)}

\* the rows of a store holding one Track per start time, ids in start order
SeedTracks(starts) ==
    {[id |-> Cardinality({x \in starts : x <= s}), user |-> 1,
      activity |-> (s % 2) + 1, start_time |-> s, end_time |-> s + 900] : s \in starts}

SeedStores == {SeedTracks(SeedStartsA), SeedTracks(SeedStartsB)}

(***************************************************************************)
(* Specifications                                                          *)
(***************************************************************************)
\* the store from empty, through its viewsets
Init ==
    /\ users = {} /\ activities = {} /\ tracks = {}
    /\ nextId = [user |-> 1, activity |-> 1, track |-> 1]
    /\ now = At(2024, 3, 13, 12, 0, 0)
    /\ default_tz = 0
    /\ request = NoRequest /\ response = NoResponse /\ locals = NoLocals
    /\ calls = <<>>

Next ==
    \/ \E name \in UserNames : CreateUser(name) /\ UNCHANGED calls
    \/ \E name \in ActivityNames : CreateActivity(name) /\ UNCHANGED calls
    \/ \E data \in StoreTrackData : CreateTrack(data) /\ UNCHANGED calls
    \/ \E pk \in KeyRange, data \in StoreTrackData : UpdateTrack(pk, data) /\ UNCHANGED calls
    \/ \E pk \in KeyRange : DeleteUser(pk) /\ UNCHANGED calls
    \/ \E pk \in KeyRange : DeleteActivity(pk) /\ UNCHANGED calls
    \/ \E pk \in KeyRange : DeleteTrack(pk) /\ UNCHANGED calls
    \/ Recap("daily", StoreQuery) /\ UNCHANGED calls

Spec == Init /\ [][Next]_vars

\* aggregation: one user, three activities (two of one name), a store of Tracks
\* of every duration and activity, and one recap request for the day, the week
\* or the month they lie in
InitAggregate ==
    /\ users = {[id |-> 1, name |-> "Ann"]}
    /\ activities = AggregateActivities
    /\ tracks \in AggregateStores
    /\ nextId = [user |-> 2, activity |-> 4, track |-> Cardinality(tracks) + 1]
    /\ now = At(2024, 3, 13, 12, 0, 0)
    /\ default_tz = 0
    /\ request = NoRequest /\ response = NoResponse /\ locals = NoLocals
    /\ calls = <<>>

NextAggregate ==
    /\ request = NoRequest
    /\ \E mode \in ValidModes : Recap(mode, AggregateQuery)
    /\ UNCHANGED calls

SpecAggregate == InitAggregate /\ [][NextAggregate]_vars

\* periods: a store with Tracks on the period boundaries and one recap request
\* on it, of any mode and query, at several times of the clock
InitPeriod ==
    /\ users = {[id |-> 1, name |-> "Ann"]}
    /\ activities = {[id |-> 1, name |-> "Run"], [id |-> 2, name |-> "Swim"]}
    /\ tracks \in SeedStores
    /\ nextId = [user |-> 2, activity |-> 3, track |-> Cardinality(tracks) + 1]
    /\ now \in NowValues
    /\ default_tz \in DefaultTimezones
    /\ request = NoRequest /\ response = NoResponse /\ locals = NoLocals
    /\ calls = <<>>

NextPeriod ==
    /\ request = NoRequest
    /\ \E mode \in Modes, GET \in PeriodQueries : Recap(mode, GET)
    /\ UNCHANGED calls

SpecPeriod == InitPeriod /\ [][NextPeriod]_vars

\* recap calls a client makes in a row
MaxCalls == 2

\* Saturday 22:00, Saturday 23:30 and Sunday 18:00 at UTC-5 (Sunday at UTC),
\* then Monday 2024-03-11 and Monday 2024-04-01
ClockValues ==
    {At(2024, 3, 10, 3, 0, 0), At(2024, 3, 10, 4, 30, 0), At(2024, 3, 10, 23, 0, 0),
     At(2024, 3, 11, 6, 0, 0), At(2024, 4, 1, 6, 0, 0)}

\* two Tracks of different activities with one start_time, which the database
\* may yield in either order, and a Track in the next day and in the next month
RepeatTracks ==
    {[id |-> 1, user |-> 1, activity |-> 1, start_time |-> At(2024, 3, 10, 4, 0, 0),
      end_time |-> At(2024, 3, 10, 4, 15, 0)],
     [id |-> 2, user |-> 1, activity |-> 2, start_time |-> At(2024, 3, 10, 4, 0, 0),
      end_time |-> At(2024, 3, 10, 4, 20, 0)],
     [id |-> 3, user |-> 1, activity |-> 1, start_time |-> At(2024, 3, 11, 7, 0, 0),
      end_time |-> At(2024, 3, 11, 7, 10, 0)],
     [id |-> 4, user |-> 1, activity |-> 2, start_time |-> At(2024, 4, 1, 7, 0, 0),
      end_time |-> At(2024, 4, 1, 7, 5, 0)]}

RepeatQueries ==
    {Query(d, w, ym[1], ym[2], z) :
         d \in {None, DateStr(2024, 3, 10), <<"x", "x">>},
         w \in {None, DateStr(2024, 3, 4)},
         ym \in {<<None, None>>, <<<<"2", "0", "2", "4">>, <<"3">>>>, <<<<"2", "0", "2", "4">>, None>>},
         z \in {None, <<"3", "0", "0">>, <<"a", "b", "c">>}}

\* time passes: timezone.now() is read from a clock that moves on
Tick ==
    /\ \E t \in ClockValues : t > now /\ now' = t
    /\ UNCHANGED <<store, default_tz, request, response, locals, calls>>

\* a recap call of the client: any request at first, the same request after that
Call ==
    /\ Len(calls) < MaxCalls
    /\ \E mode \in Modes, GET \in RepeatQueries :
           /\ calls # <<>> => (mode = calls[1].request.mode /\ GET = calls[1].request.GET)
           /\ Recap(mode, GET)
           /\ calls' = Append(calls, [request |-> request', response |-> response',
                                      tracks |-> IF locals'.returned = "summary"
                                                 THEN locals'.tracks ELSE <<>>,
                                      now |-> now])

\* repeated calls: a store nobody writes to, a clock that moves on, and a client
\* that repeats one recap request
InitRepeat ==
    /\ users = {[id |-> 1, name |-> "Ann"]}
    /\ activities = {[id |-> 1, name |-> "Run"], [id |-> 2, name |-> "Swim"]}
    /\ tracks = RepeatTracks
    /\ nextId = [user |-> 2, activity |-> 3, track |-> 5]
    /\ now \in ClockValues
    /\ default_tz = 0
    /\ request = NoRequest /\ response = NoResponse /\ locals = NoLocals
    /\ calls = <<>>

NextRepeat == Tick \/ Call

SpecRepeat == InitRepeat /\ [][NextRepeat]_vars

(***************************************************************************)
(* Properties                                                              *)
(***************************************************************************)
\* the last request was a recap and it returned a summary
RecapSummary == request.op = "recap" /\ response.status = 200

\* the last request was a recap and it returned an error body and no summary
RecapError(status) ==
    /\ request.op = "recap"
    /\ response.status = status
    /\ DOMAIN response.body = {"error"}
    /\ locals = NoLocals

RECURSIVE SumDurations(_)
SumDurations(rows) ==
    IF rows = {} THEN 0
    ELSE LET t == CHOOSE x \in rows : TRUE
         IN  (t.end_time - t.start_time) + SumDurations(rows \ {t})

\* the Tracks the recap counted: those its loop ran over
Counted == {locals.tracks[i] : i \in 1..Len(locals.tracks)}

\* the instant a returned ISO text denotes
TextInstant(text) == Instant(FromIsoformat(text).value)

\* C1: a recap counts a Track iff start <= Track.start_time < end for the period
\* [start, end) it returns: a Track starting at start is counted, one starting at
\* end is not, and total_minutes is the total of exactly the Tracks in the period.
C1_HalfOpenPeriod ==
    RecapSummary =>
        LET start == TextInstant(response.body.start)
            end   == TextInstant(response.body.end)
            in    == {t \in tracks : start <= t.start_time /\ t.start_time < end}
        IN  /\ Counted = in
            /\ Len(locals.tracks) = Cardinality(in)
            /\ response.body.total_minutes = RoundDiv(SumDurations(in) * 100, 60)

\* a summary over a store holding a Track that starts at start and one at end
C1_Witness ==
    /\ RecapSummary
    /\ \E t \in tracks : t.start_time = TextInstant(response.body.start) /\ t \in Counted
    /\ \E t \in tracks : t.start_time = TextInstant(response.body.end) /\ t \notin Counted

\* tz_offset is absent, or an integer that makes a timezone
UsableTzOffset ==
    \/ request.GET.tz_offset = None
    \/ /\ ParseInt(request.GET.tz_offset).ok
       /\ AbsVal(ParseInt(request.GET.tz_offset).value) < 1440

\* the client timezone of the request, minutes east of UTC
ClientOffset ==
    IF request.GET.tz_offset # None THEN 0 - ParseInt(request.GET.tz_offset).value
    ELSE default_tz

\* the ISO text of param can be parsed
Parsable(param) == FromIsoformat(ReplaceZ(param)).ok

\* the instant param names: a text without offset is wall-clock time of the client
AnchorInstant(param, offset) ==
    LET parsed == FromIsoformat(ReplaceZ(param)).value
    IN  IF IsNaive(parsed) THEN Instant(MakeAware(parsed, offset)) ELSE Instant(parsed)

\* days since Monday 2024-01-01 of instant t on the calendar at offset
LocalDay(t, offset) == (t + offset * 60) \div 86400

\* the instant of local midnight of the day of t at offset
ClientDayStart(t, offset) == t - ((t + offset * 60) % 86400)

\* the instant of local midnight of the Monday on or before the day of t
MondayOnOrBefore(t, offset) == ClientDayStart(t, offset) - (LocalDay(t, offset) % 7) * 86400

\* the UTC offset written in a returned ISO text
TextOffset(text) == FromIsoformat(text).value.tzinfo[1]

WeeklyRequest ==
    /\ request.op = "recap" /\ request.mode = "weekly"
    /\ UsableTzOffset
    /\ Truthy(request.GET.week_start) => Parsable(request.GET.week_start)

WeekAnchor ==
    IF Truthy(request.GET.week_start)
    THEN AnchorInstant(request.GET.week_start, ClientOffset)
    ELSE now

\* C2 as claimed: in weekly mode start is client-local midnight of the Monday on
\* or before the anchor (week_start, or now), also when week_start names another
\* weekday, and end is start + 7 days.
C2_AlwaysMonday ==
    WeeklyRequest =>
        /\ RecapSummary
        /\ TextInstant(response.body.start) = MondayOnOrBefore(WeekAnchor, ClientOffset)
        /\ TextInstant(response.body.end) = TextInstant(response.body.start) + 7 * 86400
        /\ TextOffset(response.body.start) = ClientOffset
        /\ TextOffset(response.body.end) = ClientOffset

\* C2 as amended: without week_start, start is client-local midnight of the
\* Monday on or before now; with week_start, start is client-local midnight of
\* the day week_start names, whatever its weekday; end is start + 7 days.
C2_WeekStartAsGiven ==
    WeeklyRequest =>
        /\ RecapSummary
        /\ TextInstant(response.body.start) =
               IF Truthy(request.GET.week_start)
               THEN ClientDayStart(WeekAnchor, ClientOffset)
               ELSE MondayOnOrBefore(now, ClientOffset)
        /\ TextInstant(response.body.end) = TextInstant(response.body.start) + 7 * 86400
        /\ TextOffset(response.body.start) = ClientOffset
        /\ TextOffset(response.body.end) = ClientOffset

\* a weekly summary for a week_start that is no Monday, starting on that day
C2_Witness ==
    /\ WeeklyRequest /\ RecapSummary
    /\ Truthy(request.GET.week_start)
    /\ LocalDay(WeekAnchor, ClientOffset) % 7 # 0
    /\ LocalDay(TextInstant(response.body.start), ClientOffset) % 7 # 0

\* the number written at positions a..b of a text
Field(text, a, b) == Num(SubSeq(text, a, b))

DailyRequest ==
    /\ request.op = "recap" /\ request.mode = "daily"
    /\ request.GET.tz_offset # None /\ UsableTzOffset
    /\ Truthy(request.GET.date) /\ Parsable(request.GET.date)
    /\ IsNaive(FromIsoformat(ReplaceZ(request.GET.date)).value)

\* C3: in daily mode with tz_offset = o and a date naming calendar day D, the
\* Tracks counted are those whose UTC start_time lies in
\* [D 00:00 UTC + o minutes, D 00:00 UTC + o minutes + 24 hours); with
\* tz_offset=300 and date=2024-03-10 the Tracks of 03:00Z and 04:30Z are left
\* out and the Track of 05:00Z is counted.
C3_DailyClientDay ==
    DailyRequest =>
        LET o  == ParseInt(request.GET.tz_offset).value
            d  == request.GET.date
            lo == At(Field(d, 1, 4), Field(d, 6, 7), Field(d, 9, 10), 0, 0, 0) + o * 60
        IN  /\ RecapSummary
            /\ Counted = {t \in tracks : lo <= t.start_time /\ t.start_time < lo + 86400}
            /\ (o = 300 /\ d = DateStr(2024, 3, 10)) =>
                   \A t \in tracks :
                       /\ t.start_time \in {At(2024, 3, 10, 3, 0, 0), At(2024, 3, 10, 4, 30, 0)}
                              => t \notin Counted
                       /\ t.start_time = At(2024, 3, 10, 5, 0, 0) => t \in Counted

\* the daily summary of 2024-03-10 at tz_offset=300 over Tracks of 03:00Z, 04:30Z, 05:00Z
C3_Witness ==
    /\ DailyRequest /\ RecapSummary
    /\ request.GET.tz_offset = <<"3", "0", "0">> /\ request.GET.date = DateStr(2024, 3, 10)
    /\ \A s \in {At(2024, 3, 10, 3, 0, 0), At(2024, 3, 10, 4, 30, 0), At(2024, 3, 10, 5, 0, 0)} :
           \E t \in tracks : t.start_time = s
    /\ \E t \in Counted : t.start_time = At(2024, 3, 10, 5, 0, 0)

MonthSupplied == Truthy(request.GET.year) /\ Truthy(request.GET.month)

MonthlyRequest ==
    /\ request.op = "recap" /\ request.mode = "monthly"
    /\ UsableTzOffset
    /\ MonthSupplied =>
           /\ ParseInt(request.GET.year).ok /\ ParseInt(request.GET.month).ok
           /\ ParseInt(request.GET.year).value \in 1..9998
           /\ ParseInt(request.GET.month).value \in 1..12

\* the target month: the one supplied, else the month of now on the client's calendar
TargetMonth ==
    IF MonthSupplied
    THEN [year |-> ParseInt(request.GET.year).value, month |-> ParseInt(request.GET.month).value]
    ELSE LET ymd == Ord2Ymd(LocalDay(now, ClientOffset) + EpochOrdinal)
         IN  [year |-> ymd.year, month |-> ymd.month]

\* the ISO text of local midnight of day 1 of a month
MonthStartText(y, m, offset) ==
    Pad4(y) \o <<"-">> \o Pad2(m) \o <<"-", "0", "1", "T", "0", "0", ":", "0", "0", ":", "0", "0">>
    \o <<(IF offset < 0 THEN "-" ELSE "+")>>
    \o Pad2(AbsVal(offset) \div 60) \o <<":">> \o Pad2(AbsVal(offset) % 60)

\* C4: in monthly mode start is client-local midnight of day 1 of the target
\* month and end that of day 1 of the following month (of month 1 of year + 1
\* after month 12); the target is (year, month) when both are supplied, else the
\* current month in the client timezone.
C4_MonthPeriod ==
    MonthlyRequest =>
        LET y == TargetMonth.year
            m == TargetMonth.month
        IN  /\ RecapSummary
            /\ response.body.start = MonthStartText(y, m, ClientOffset)
            /\ response.body.end =
                   IF m = 12 THEN MonthStartText(y + 1, 1, ClientOffset)
                   ELSE MonthStartText(y, m + 1, ClientOffset)

\* the monthly summary of December 2024, ending on 2025-01-01
C4_Witness ==
    /\ MonthlyRequest /\ RecapSummary
    /\ MonthSupplied /\ TargetMonth = [year |-> 2024, month |-> 12]
    /\ SubSeq(response.body.end, 1, 10) = DateStr(2025, 1, 1)

\* needle occurs in the text haystack
Contains(haystack, needle) ==
    \E i \in 0..(Len(haystack) - Len(needle)) :
        SubSeq(haystack, i + 1, i + Len(needle)) = needle

InvalidModeRequest == request.op = "recap" /\ request.mode \notin {"daily", "weekly", "monthly"}

ValidModeRequest == request.op = "recap" /\ request.mode \in {"daily", "weekly", "monthly"}

\* tz_offset is supplied and is no integer
BadTzOffset == request.GET.tz_offset # None /\ ~ParseInt(request.GET.tz_offset).ok

\* the date parameter the mode reads
ModeDate ==
    CASE request.mode = "daily"  -> request.GET.date
      [] request.mode = "weekly" -> request.GET.week_start
      [] OTHER                   -> None

\* C6 as claimed: with a valid mode, a tz_offset that is no integer, or a date
\* string of the mode that is not parsable, gives status 400, no summary, and an
\* error message that contains the offending raw value.
C6_ErrorHoldsRawValue ==
    ValidModeRequest =>
        /\ BadTzOffset =>
               /\ RecapError(400)
               /\ Contains(response.body.error, request.GET.tz_offset)
        /\ (UsableTzOffset /\ Truthy(ModeDate) /\ ~Parsable(ModeDate)) =>
               /\ RecapError(400)
               /\ Contains(response.body.error, ModeDate)

\* the text starts with a date of the form YYYY-MM-DD
DateShaped(text) == Len(text) >= 10 /\ IsDateText(SubSeq(text, 1, 10))

\* C6 as amended: with a valid mode, a tz_offset that is no integer, or a
\* non-empty date string of the mode that is not parsable, gives status 400 and
\* no summary, with an error that starts "Invalid date parameter: ".  For
\* tz_offset the rest is the fixed text "Invalid tz_offset parameter", without
\* the value.  For a date string that is not of the form YYYY-MM-DD... the error
\* contains the string with every Z replaced by +00:00; for one of that form
\* with a field out of range it tells the range and does not contain the string.
C6_ErrorText ==
    ValidModeRequest =>
        /\ BadTzOffset =>
               /\ RecapError(400)
               /\ response.body.error = <<"Invalid date parameter: ", "Invalid tz_offset parameter">>
        /\ (UsableTzOffset /\ Truthy(ModeDate) /\ ~Parsable(ModeDate)) =>
               /\ RecapError(400)
               /\ Head(response.body.error) = "Invalid date parameter: "
               /\ DateShaped(ReplaceZ(ModeDate))
                      <=> ~Contains(response.body.error, ReplaceZ(ModeDate))

\* a daily request with date=badZ: the error holds bad+00:00 and not badZ
C6_Witness ==
    /\ ValidModeRequest /\ RecapError(400)
    /\ UsableTzOffset /\ request.mode = "daily"
    /\ request.GET.date = <<"b", "a", "d", "Z">>
    /\ Contains(response.body.error, <<"b", "a", "d", "+", "0", "0", ":", "0", "0">>)
    /\ ~Contains(response.body.error, request.GET.date)

\* the Tracks in the period the summary returns
InPeriod ==
    LET start == TextInstant(response.body.start)
        end   == TextInstant(response.body.end)
    IN  {t \in tracks : start <= t.start_time /\ t.start_time < end}

OfActivity(rows, id) == {t \in rows : t.activity = id}

RECURSIVE SumField(_, _)
SumField(seq, field) ==
    IF Len(seq) = 0 THEN 0 ELSE Head(seq)[field] + SumField(Tail(seq), field)

\* C7: the recap groups the counted Tracks by Activity id: entries holds exactly
\* one entry per distinct Activity id among them (two Activities of one name
\* give two entries), each entry's unrounded minutes is the sum of
\* end_time - start_time of the counted Tracks of that id, and these sum to
\* total_minutes.
C7_GroupedByActivityId ==
    RecapSummary =>
        LET entries == response.body.entries
            stats   == locals.activity_stats
            in      == InPeriod
            ids     == {t.activity : t \in in}
        IN  /\ Len(entries) = Cardinality(ids)
            /\ Len(stats) = Cardinality(ids)
            /\ \A id \in ids :
                   /\ \E i \in 1..Len(entries) :
                          /\ entries[i].activity_id = id
                          /\ entries[i].activity_name
                                 = (CHOOSE a \in activities : a.id = id).name
                          /\ entries[i].minutes
                                 = RoundDiv(SumDurations(OfActivity(in, id)) * 100, 60)
                   /\ \E i \in 1..Len(stats) :
                          /\ stats[i].activity_id = id
                          /\ stats[i].minutes = SumDurations(OfActivity(in, id))
            /\ SumField(stats, "minutes") = locals.total_minutes
            /\ locals.total_minutes = SumDurations(in)
            /\ response.body.total_minutes = RoundDiv(locals.total_minutes * 100, 60)

\* a summary with two entries of one activity name and different ids, one of
\* them summing two Tracks
C7_Witness ==
    /\ RecapSummary
    /\ LET in == InPeriod
       IN  \E i, j \in 1..Len(response.body.entries) :
               /\ response.body.entries[i].activity_name = response.body.entries[j].activity_name
               /\ response.body.entries[i].activity_id # response.body.entries[j].activity_id
               /\ Cardinality(OfActivity(in, response.body.entries[i].activity_id)) = 2

FirstSeen(id) ==
    CHOOSE k \in 1..Len(locals.tracks) :
        /\ locals.tracks[k].activity = id
        /\ \A j \in 1..(k - 1) : locals.tracks[j].activity # id

\* C9: entries is ordered by minutes descending, and entries of equal minutes
\* keep the order in which their Activity was first met among the fetched Tracks.
C9_SortedStable ==
    RecapSummary =>
        LET entries == response.body.entries
        IN  \A i, j \in 1..Len(entries) :
                i < j =>
                    /\ entries[i].minutes >= entries[j].minutes
                    /\ entries[i].minutes = entries[j].minutes =>
                           FirstSeen(entries[i].activity_id) < FirstSeen(entries[j].activity_id)

\* a summary of three entries, two of equal minutes below the first, the tie
\* listed against the order of the ids
C9_Witness ==
    /\ RecapSummary
    /\ Len(response.body.entries) = 3
    /\ response.body.entries[1].minutes > response.body.entries[2].minutes
    /\ response.body.entries[2].minutes = response.body.entries[3].minutes
    /\ response.body.entries[2].activity_id > response.body.entries[3].activity_id

\* every stored Track references a stored User and a stored Activity
ReferencesExist ==
    \A t \in tracks : t.user \in Ids(users) /\ t.activity \in Ids(activities)

\* a step stores a Track only under the ids of a User and an Activity that exist,
\* and a step that deletes a User or an Activity deletes exactly the Tracks
\* that reference it
CascadeStep ==
    /\ \A t \in tracks' \ tracks : t.user \in Ids(users) /\ t.activity \in Ids(activities)
    /\ \A pk \in Ids(users) \ Ids(users') : tracks' = {t \in tracks : t.user # pk}
    /\ \A pk \in Ids(activities) \ Ids(activities') : tracks' = {t \in tracks : t.activity # pk}

\* C10: after any sequence of creates and deletes every stored Track references
\* a User and an Activity that exist: a Track is created only with the ids of an
\* existing User and Activity, and deleting a User or an Activity deletes every
\* Track that references it and no other.
C10_ReferentialIntegrity == []ReferencesExist /\ [][CascadeStep]_vars

\* a User just deleted, with a Track gone and another User's Track still stored
C10_Witness ==
    /\ request.op = "destroy_user" /\ response.status = 204
    /\ tracks # {}
    /\ \E id \in 1..(nextId.track - 1) : id \notin Ids(tracks)
    /\ Cardinality(users) = 1 /\ Cardinality(activities) >= 1

\* the period parameters the mode reads are supplied: the period is not taken
\* from the clock
PeriodGiven(req) ==
    CASE req.mode = "daily"   -> Truthy(req.GET.date)
      [] req.mode = "weekly"  -> Truthy(req.GET.week_start)
      [] req.mode = "monthly" -> Truthy(req.GET.year) /\ Truthy(req.GET.month)
      [] OTHER                -> TRUE

\* the entries of a response as a set
EntrySet(resp) == {resp.body.entries[i] : i \in 1..Len(resp.body.entries)}

\* pairs of calls with identical mode and query parameters, the first made first
SamePairs ==
    {p \in (1..Len(calls)) \X (1..Len(calls)) :
         p[1] < p[2] /\ calls[p[1]].request = calls[p[2]].request}

\* C11 as claimed: two recap calls with identical mode and query parameters and
\* no write between them return identical output, also when the period is taken
\* from "now".
C11_RepeatIdentical ==
    \A p \in SamePairs : calls[p[2]].response = calls[p[1]].response

\* C11 as amended: of two recap calls with identical mode and query parameters
\* and no write between them, the second repeats an error response of the
\* first.  After a summary, when the period parameters the mode reads are
\* supplied, or the second call reads the clock before the end the first call
\* returned, the second returns the same label, start, end and total_minutes and
\* the same entries, in the same order if the database yields the rows in the
\* same order.  When the period is taken from "now" and the second call reads
\* the clock at or after the end the first returned, it returns another start.
C11_RepeatWithinPeriod ==
    \A p \in SamePairs :
        LET first  == calls[p[1]]
            second == calls[p[2]]
        IN  IF first.response.status # 200
            THEN second.response = first.response
            ELSE IF \/ PeriodGiven(first.request)
                    \/ second.now < TextInstant(first.response.body.end)
            THEN /\ second.response.status = 200
                 /\ second.response.body.mode = first.response.body.mode
                 /\ second.response.body.label = first.response.body.label
                 /\ second.response.body.start = first.response.body.start
                 /\ second.response.body.end = first.response.body.end
                 /\ second.response.body.total_minutes = first.response.body.total_minutes
                 /\ EntrySet(second.response) = EntrySet(first.response)
                 /\ second.tracks = first.tracks => second.response = first.response
            ELSE /\ second.response.status = 200
                 /\ second.response.body.start # first.response.body.start

\* a daily request without date, answered twice: on one client day with the same
\* summary, then again after midnight with the summary of another day
C11_Witness ==
    /\ Len(calls) = 2
    /\ calls[1].request = calls[2].request
    /\ calls[1].request.mode = "daily" /\ ~PeriodGiven(calls[1].request)
    /\ calls[1].response.status = 200 /\ calls[2].response.status = 200
    /\ calls[1].now < calls[2].now
    /\ calls[2].response.body.start # calls[1].response.body.start
    /\ calls[2].response.body.total_minutes # calls[1].response.body.total_minutes

====
